---- MODULE Spec2Model ----
(***************************************************************************)
(* Task tracker (src/app.py): the statistics of calculate_stats, the day   *)
(* grid of create_calendar_heatmap and the add / toggle / remove session   *)
(* over the CSV task file.                                                  *)
(*                                                                         *)
(* A calendar date is its proleptic Gregorian ordinal (date.toordinal()),  *)
(* so date + timedelta(days=k) is ordinal + k.  A timestamp (the 'date'    *)
(* column, datetime64) is a record [day, tod]: the calendar day and the    *)
(* time of day; .dt.date keeps the day and drops the time of day.          *)
(***************************************************************************)
EXTENDS Integers, Sequences, FiniteSets, TLC

VARIABLES
    today,      \* datetime.date.today(), an ordinal
    df,         \* the frame handed to calculate_stats / create_calendar_heatmap
    pc,         \* "ready": the function has its input; "pivot": the heatmap has
                \* built calendar_data; "done": the function has returned
    stats,      \* what calculate_stats returned
    heatmap,    \* the grid create_calendar_heatmap built
    csv,        \* tasks.csv: the stored task list, one row per record
    confirm_delete_index,   \* st.session_state.confirm_delete_index
    lastPressed,            \* history: id of the row whose remove button was pressed last
    lastStep,               \* history: the UI step taken last, with its inputs
    nextId                  \* history: next fresh row id

vars == <<today, df, pc, stats, heatmap, csv, confirm_delete_index,
          lastPressed, lastStep, nextId>>

\* confirm_delete_index = None (row labels are 0, 1, ...)
None == -1

(***************************************************************************)
(* Bounds of the model.                                                    *)
(***************************************************************************)
MaxRecords == 3     \* rows of a frame handed to calculate_stats
MaxDay == 9         \* calculate_stats: record dates are the ordinals 1..MaxDay
MaxAdds == 3        \* session: tasks added in all
MaxHeatRecords == 2 \* rows of a frame handed to create_calendar_heatmap
FirstToday == 739245    \* heatmap: the first value of today, 2024-12-25
TodaySpan == 16         \* heatmap: today ranges over FirstToday .. FirstToday + TodaySpan

Days == 1..MaxDay
\* today is one of the last two days, so MaxDay can lie in the future
Todays == {MaxDay - 1, MaxDay}
TimesOfDay == {"00:00:00", "12:30:00"}
Statuses == {"pending", "completed"}

Timestamp(d, t) == [day |-> d, tod |-> t]
Row(d, t, s) == [date |-> Timestamp(d, t), status |-> s]
StatsRows == {Row(d, t, s) : d \in Days, t \in TimesOfDay, s \in Statuses}


\* calculate_stats reads the frame only through masks, counts and sorted(unique()):
\* the model hands it one frame per collection of rows, its rows in RowKey order.
StatusRank(s) == IF s = "pending" THEN 0 ELSE 1
TodRank(t) == IF t = "00:00:00" THEN 0 ELSE 1
RowKey(r) == (r.date.day * 2 + TodRank(r.date.tod)) * 2 + StatusRank(r.status)

RECURSIVE FramesUpTo(_, _)
FramesUpTo(S, n) ==
    IF n = 0 THEN {<<>>}
    ELSE LET shorter == FramesUpTo(S, n - 1)
             longest == {p \in shorter : Len(p) = n - 1}
         IN  shorter \cup
             {Append(p, x) : <<p, x>> \in
                 {px \in longest \X S :
                     px[1] = <<>> \/ RowKey(px[1][Len(px[1])]) <= RowKey(px[2])}}

(***************************************************************************)
(* calculate_stats                                                         *)
(***************************************************************************)
\* Series.dt.date
DtDate(ts) == ts.day

\* df[df['status'] == 'completed']
CompletedDf(frame) == SelectSeq(frame, LAMBDA r : r.status = "completed")

RECURSIVE SortedSeq(_)
SortedSeq(S) ==
    IF S = {} THEN <<>>
    ELSE LET m == CHOOSE x \in S : \A y \in S : x <= y
         IN  <<m>> \o SortedSeq(S \ {m})

\* the distinct values of the 'date' column as compared by unique()
DateKeysNoNormalize(frame) ==
    {frame[i].date.day * 2 + TodRank(frame[i].date.tod) : i \in 1..Len(frame)}
DateKeys(frame) == {DtDate(frame[i].date) : i \in 1..Len(frame)}

\* sorted(df['date'].dt.date.unique())
UniqueDates(frame) == SortedSeq(DateKeys(frame))

\* completed_df[completed_df['date'].dt.date > one_week_ago].shape[0]
TasksLastWeekInclusive(frame, t) ==
    LET one_week_ago == t - 7
    IN  Len(SelectSeq(CompletedDf(frame), LAMBDA r : DtDate(r.date) >= one_week_ago))
TasksLastWeek(frame, t) ==
    LET one_week_ago == t - 7
    IN  Len(SelectSeq(CompletedDf(frame), LAMBDA r : DtDate(r.date) > one_week_ago))

SeqElems(u) == {u[i] : i \in 1..Len(u)}

\* line 52: the running streak before the scan
InitialStreak(u, t) ==
    IF u # <<>> /\ (t \in SeqElems(u) \/ (t - 1) \in SeqElems(u)) THEN 1 ELSE 0

\* lines 56-63: for i in range(1, len(unique_dates)); i is the 1-based position
RECURSIVE MaxStreakLoop(_, _, _, _)
MaxStreakLoop(u, i, current_streak, max_streak) ==
    IF i > Len(u) THEN max_streak
    ELSE LET c == IF u[i] = u[i - 1] + 1 THEN current_streak + 1 ELSE 1
             m == IF c > max_streak THEN c ELSE max_streak
         IN  MaxStreakLoop(u, i + 1, c, m)

\* line 70: the last active day was today or yesterday
AnchoredTodayOnly(u, t) == u[Len(u)] = t
AnchoredAlways(u, t) == TRUE
Anchored(u, t) == u[Len(u)] = t \/ u[Len(u)] = t - 1

\* lines 72-76: for i in range(len(unique_dates) - 1, 0, -1), with its break
RECURSIVE CurrentStreakLoopNoBreak(_, _, _)
CurrentStreakLoopNoBreak(u, i, c) ==
    IF i < 2 THEN c
    ELSE IF u[i] = u[i - 1] + 1 THEN CurrentStreakLoopNoBreak(u, i - 1, c + 1)
    ELSE CurrentStreakLoopNoBreak(u, i - 1, c)
RECURSIVE CurrentStreakLoop(_, _, _)
CurrentStreakLoop(u, i, c) ==
    IF i < 2 THEN c
    ELSE IF u[i] = u[i - 1] + 1 THEN CurrentStreakLoop(u, i - 1, c + 1)
    ELSE c

StatsTuple(tc, tlw, tad, ms, cs) ==
    [total_completed |-> tc, tasks_last_week |-> tlw, total_active_days |-> tad,
     max_streak |-> ms, current_streak |-> cs]

calculate_stats(frame, t) ==
    IF frame = <<>> THEN StatsTuple(0, 0, 0, 0, 0)
    ELSE
    LET completed_df == CompletedDf(frame)
        unique_dates == UniqueDates(frame)
        total_active_days == Len(unique_dates)
        tasks_last_week == TasksLastWeek(frame, t)
    IN  IF unique_dates = <<>>
        THEN StatsTuple(Len(completed_df), tasks_last_week, 0, 0, 0)
        ELSE
        LET max_streak0 == IF total_active_days > 0 THEN 1 ELSE 0
            max_streak == MaxStreakLoop(unique_dates, 2,
                                        InitialStreak(unique_dates, t), max_streak0)
            current_streak_calc ==
                IF Anchored(unique_dates, t)
                THEN CurrentStreakLoop(unique_dates, Len(unique_dates), 1)
                ELSE 0
        IN  StatsTuple(Len(completed_df), tasks_last_week, total_active_days,
                       max_streak, current_streak_calc)

(***************************************************************************)
(* tasks.csv and the frame load_data reads from it.  A stored row is       *)
(* [id, date, task, status]; id is not in the file: it names the record    *)
(* so that the history can follow it.  Row label k of the frame (0-based   *)
(* RangeIndex of read_csv) is position k + 1.                              *)
(***************************************************************************)
\* a cell read_csv found empty or holding an NA marker (float nan)
NaN == "<nan>"

\* read_csv, keep_default_na: the 'task' texts of the model that read as NA
NaMarkers == {"", "NA"}

Step(op, task, day) == [op |-> op, task |-> task, day |-> day]

ReadTask(text) == IF text \in NaMarkers THEN NaN ELSE text
\* to_csv, na_rep = ''
WriteTask(cell) == IF cell = NaN THEN "" ELSE cell

\* load_data: pd.read_csv(TASK_DATA_FILE, parse_dates=['date']); a missing file
\* is the empty frame
load_data(file) == [i \in 1..Len(file) |-> [file[i] EXCEPT !.task = ReadTask(@)]]

\* save_data: df.to_csv(TASK_DATA_FILE, index=False)
save_data(frame) == [i \in 1..Len(frame) |-> [frame[i] EXCEPT !.task = WriteTask(@)]]

\* the frame's index labels
IndexOf(frame) == 0..(Len(frame) - 1)

\* df.drop(label, inplace=True)
DropRowAfter(frame, label) ==
    LET p == IF label + 2 <= Len(frame) THEN label + 2 ELSE Len(frame)
    IN  [i \in 1..(Len(frame) - 1) |-> IF i < p THEN frame[i] ELSE frame[i + 1]]
DropRow(frame, label) ==
    [i \in 1..(Len(frame) - 1) |-> IF i < label + 1 THEN frame[i] ELSE frame[i + 1]]

\* pd.concat([df, new_task], ignore_index=True)
ConcatFront(frame, row) == <<row>> \o frame
Concat(frame, row) == Append(frame, row)

\* df.loc[df.index == index, 'status'] = 'completed' if is_completed else 'pending'
SetStatus(frame, label, s) == [frame EXCEPT ![label + 1].status = s]

(***************************************************************************)
(* Spec: one session over tasks.csv.  Every action is one run of the       *)
(* script, started by one widget event and ended by st.rerun().            *)
(***************************************************************************)
IdleSession ==
    /\ csv = <<>>
    /\ confirm_delete_index = None
    /\ lastPressed = None
    /\ lastStep = Step("start", "", 0)
    /\ nextId = 1

SessionDays == {1, 2}
Descriptions == {"", "a", "NA"}

Init ==
    /\ today = 1
    /\ df = <<>>
    /\ pc = "ready"
    /\ stats = StatsTuple(0, 0, 0, 0, 0)
    /\ heatmap = <<>>
    /\ IdleSession

Aggregates == <<today, df, pc, stats, heatmap>>

\* lines 172-182: the Add Task button
AddTask(task_description, task_date) ==
    /\ nextId <= MaxAdds
    /\ IF task_description # ""
       THEN LET frame == load_data(csv)
                new_task == [id |-> nextId,
                             date |-> Timestamp(task_date, "00:00:00"),
                             task |-> task_description,
                             status |-> "pending"]
            IN  /\ csv' = save_data(Concat(frame, new_task))
                /\ nextId' = nextId + 1
       ELSE UNCHANGED <<csv, nextId>>
    /\ lastStep' = Step("add", task_description, task_date)
    /\ UNCHANGED <<confirm_delete_index, lastPressed, Aggregates>>

\* lines 154, 163-166: a checkbox of the task list was clicked
ToggleStatus(index) ==
    LET frame == load_data(csv)
    IN  /\ index \in IndexOf(frame)
        /\ LET is_completed == ~(frame[index + 1].status = "completed")
           IN  csv' = save_data(SetStatus(frame, index,
                          IF is_completed THEN "completed" ELSE "pending"))
        /\ lastStep' = Step("toggle", "", 0)
        /\ UNCHANGED <<confirm_delete_index, lastPressed, nextId, Aggregates>>

\* lines 159-161: the remove button of row index
PressRemove(index) ==
    /\ index \in IndexOf(load_data(csv))
    /\ confirm_delete_index' = index
    /\ lastPressed' = csv[index + 1].id
    /\ lastStep' = Step("remove", "", 0)
    /\ UNCHANGED <<csv, nextId, Aggregates>>

\* lines 191-192: the modal is drawn (df.loc finds the row)
ModalShown ==
    /\ confirm_delete_index # None
    /\ confirm_delete_index \in IndexOf(load_data(csv))

\* lines 197-203: Confirm
Confirm ==
    /\ ModalShown
    /\ csv' = save_data(DropRow(load_data(csv), confirm_delete_index))
    /\ confirm_delete_index' = None
    /\ lastStep' = Step("confirm", "", 0)
    /\ UNCHANGED <<lastPressed, nextId, Aggregates>>

\* lines 205-207: Cancel
Cancel ==
    /\ ModalShown
    /\ confirm_delete_index' = None
    /\ lastStep' = Step("cancel", "", 0)
    /\ UNCHANGED <<csv, lastPressed, nextId, Aggregates>>

Next ==
    \/ \E d \in Descriptions, t \in SessionDays : AddTask(d, t)
    \/ \E i \in 0..(MaxAdds - 1) : ToggleStatus(i)
    \/ \E i \in 0..(MaxAdds - 1) : PressRemove(i)
    \/ Confirm
    \/ Cancel

Spec == Init /\ [][Next]_vars

(***************************************************************************)
(* SpecStats: calculate_stats applied to every frame of at most MaxRecords *)
(* rows and every today.                                                   *)
(***************************************************************************)
InitStats ==
    /\ today \in Todays
    /\ df \in FramesUpTo(StatsRows, MaxRecords)
    /\ pc = "ready"
    /\ stats = StatsTuple(0, 0, 0, 0, 0)
    /\ heatmap = <<>>
    /\ IdleSession

CalcStats ==
    /\ pc = "ready"
    /\ pc' = "done"
    /\ stats' = calculate_stats(df, today)
    /\ UNCHANGED <<today, df, heatmap, csv, confirm_delete_index,
                   lastPressed, lastStep, nextId>>

NextStats == CalcStats

SpecStats == InitStats /\ [][NextStats]_vars

(***************************************************************************)
(* What the statistics are measured against: the set of active days and    *)
(* its runs of calendar-consecutive days.                                  *)
(***************************************************************************)
ActiveDays(frame) == {frame[i].date.day : i \in 1..Len(frame)}

\* the length of the run of consecutive days of S that ends at d (d in S)
RunEndingAt(S, d) ==
    CHOOSE k \in 1..Cardinality(S) :
        /\ \A j \in 0..(k - 1) : (d - j) \in S
        /\ (d - k) \notin S

SetMax(S) == CHOOSE x \in S : \A y \in S : y <= x
SetMin(S) == CHOOSE x \in S : \A y \in S : x <= y

LongestRun(S) == SetMax({RunEndingAt(S, d) : d \in S})

CompletedRows(frame) == {i \in 1..Len(frame) : frame[i].status = "completed"}

\* C1: for a non-empty frame, max_streak is the length of the longest run of
\* calendar-consecutive distinct record dates, wherever the run lies relative to
\* today.
C1_MaxStreakIsLongestRun ==
    (pc = "done" /\ df # <<>>) =>
        stats.max_streak = LongestRun(ActiveDays(df))

\* C2: for a non-empty frame, current_streak is 0 when the most recent record
\* date is neither today nor yesterday, and otherwise the length of the run of
\* consecutive distinct dates that ends at the most recent record date.
C2_CurrentStreak ==
    (pc = "done" /\ df # <<>>) =>
        LET S == ActiveDays(df)
            last == SetMax(S)
        IN  IF last # today /\ last # today - 1
            THEN stats.current_streak = 0
            ELSE stats.current_streak = RunEndingAt(S, last)

\* C2 witness: a streak anchored at yesterday that stops at a gap.
C2_Witness ==
    /\ pc = "done"
    /\ ActiveDays(df) = {today - 4, today - 2, today - 1}
    /\ stats.current_streak = 2

\* C3: total_active_days is the number of distinct calendar dates carrying a
\* record of any status, and a further record on an already active date leaves
\* it unchanged.
C3_TotalActiveDays ==
    pc = "done" =>
        /\ stats.total_active_days = Cardinality(ActiveDays(df))
        /\ \A r \in {Row(d, t, s) : d \in ActiveDays(df), t \in TimesOfDay, s \in Statuses} :
              calculate_stats(Append(df, r), today).total_active_days
                  = stats.total_active_days

\* C3 witness: three records of one calendar day, at different times of day and
\* of both statuses, count as one active day.
C3_Witness ==
    /\ pc = "done"
    /\ Len(df) = 3
    /\ stats.total_active_days = 1
    /\ {df[i].date.tod : i \in 1..3} = TimesOfDay
    /\ {df[i].status : i \in 1..3} = Statuses

\* C4: total_completed counts the completed records and tasks_last_week the
\* completed records dated strictly after today - 7.
C4_CompletedCounts ==
    pc = "done" =>
        /\ stats.total_completed = Cardinality(CompletedRows(df))
        /\ stats.tasks_last_week =
              Cardinality({i \in CompletedRows(df) : df[i].date.day > today - 7})

\* C4 witness: completed records dated today - 7 and today - 6 and a pending one
\* dated today; only the one of today - 6 is in the last 7 days.
C4_Witness ==
    /\ pc = "done"
    /\ Len(df) = 3
    /\ \E i, j, k \in 1..3 :
          /\ df[i].date.day = today - 7 /\ df[i].status = "completed"
          /\ df[j].date.day = today - 6 /\ df[j].status = "completed"
          /\ df[k].date.day = today /\ df[k].status = "pending"
    /\ stats.total_completed = 2
    /\ stats.tasks_last_week = 1

\* C10: 0 <= current_streak <= max_streak <= total_active_days, and
\* max_streak >= 1 for a non-empty frame.
C10_StreakOrder ==
    pc = "done" =>
        /\ 0 <= stats.current_streak
        /\ stats.current_streak <= stats.max_streak
        /\ stats.max_streak <= stats.total_active_days
        /\ (df # <<>> => stats.max_streak >= 1)

\* C10 witness: the three figures are pairwise different.
C10_Witness ==
    /\ pc = "done"
    /\ stats.current_streak = 1
    /\ stats.max_streak = 2
    /\ stats.total_active_days = 3

(***************************************************************************)
(* The session's claims.                                                   *)
(***************************************************************************)
Ids(file) == {file[i].id : i \in 1..Len(file)}

\* C8: a record leaves the stored task list only in a Confirm step taken while
\* confirm_delete_index is set, the record removed is the one whose remove
\* button was pressed last, no other step removes a record, and Confirm and
\* Cancel both reset confirm_delete_index to None.
C8_RemovalOnlyByConfirm ==
    [][ LET removed == Ids(csv) \ Ids(csv')
        IN  /\ removed # {} =>
                  /\ lastStep'.op = "confirm"
                  /\ confirm_delete_index # None
            /\ lastStep'.op = "confirm" =>
                  /\ removed = {lastPressed}
                  /\ Len(csv') = Len(csv) - 1
            /\ lastStep'.op \in {"confirm", "cancel"} =>
                  confirm_delete_index' = None
      ]_vars

\* C8 witness: Confirm removed the first record, whose remove button was the
\* last one pressed; the two later records remain.
C8_Witness ==
    /\ lastStep.op = "confirm"
    /\ lastPressed = 1
    /\ Ids(csv) = {2, 3}
    /\ confirm_delete_index = None

\* C9: Add Task with a non-empty description appends exactly one pending record
\* of the chosen date and leaves every stored record (date, description, status)
\* unchanged; with an empty description the stored list is unchanged.
C9_AddTaskFrame ==
    [][ lastStep'.op = "add" =>
          IF lastStep'.task # ""
          THEN /\ Len(csv') = Len(csv) + 1
               /\ csv'[Len(csv')].status = "pending"
               /\ csv'[Len(csv')].date = Timestamp(lastStep'.day, "00:00:00")
               /\ \A i \in 1..Len(csv) : csv'[i] = csv[i]
          ELSE csv' = csv
      ]_vars

(***************************************************************************)
(* The calendar of datetime / pandas on ordinals.                          *)
(***************************************************************************)
\* the days before 1 January of year y
DaysBeforeYear(y) ==
    (y - 1) * 365 + ((y - 1) \div 4) - ((y - 1) \div 100) + ((y - 1) \div 400)

\* DatetimeIndex.year: the calendar year
YearOf(ord) ==
    CHOOSE y \in (ord \div 366)..((ord \div 365) + 1) :
        DaysBeforeYear(y) < ord /\ ord <= DaysBeforeYear(y + 1)

\* DatetimeIndex.weekday: Monday = 0 .. Sunday = 6
Weekday(ord) == (ord + 6) % 7

\* the Monday that starts ISO week 1 of year y
IsoWeek1Monday(y) ==
    LET firstday == DaysBeforeYear(y) + 1
        firstweekday == Weekday(firstday)
        week1monday == firstday - firstweekday
    IN  IF firstweekday > 3 THEN week1monday + 7 ELSE week1monday

\* DatetimeIndex.isocalendar().week
IsoWeek(ord) ==
    LET y == YearOf(ord)
    IN  IF ord < IsoWeek1Monday(y)
        THEN ((ord - IsoWeek1Monday(y - 1)) \div 7) + 1
        ELSE IF ord >= IsoWeek1Monday(y + 1)
        THEN 1
        ELSE ((ord - IsoWeek1Monday(y)) \div 7) + 1

(***************************************************************************)
(* create_calendar_heatmap                                                 *)
(***************************************************************************)
WindowWeeks == 53

\* pd.date_range(start=today - timedelta(weeks=53), end=today, freq='D')
DateRange(t) == (t - WindowWeeks * 7)..t

\* plot_df.groupby('date').size().reindex(date_range, fill_value=0): the rows
\* whose timestamp is the range's timestamp of day d, which is midnight
DailyCount(frame, d) ==
    Cardinality({i \in 1..Len(frame) : frame[i].date = Timestamp(d, "00:00:00")})

\* year.astype(str) + '-' + week.astype(str).str.zfill(2): four digits, a dash,
\* two digits.  Strings of this shape sort as the numbers year * 100 + week.
YearWeek(year, week) == year * 100 + week

\* calendar_data, one row per day of the range
CalendarRow(frame, d) ==
    LET year == YearOf(d)
        week == IsoWeek(d)
    IN  [counts |-> DailyCount(frame, d),
         weekday |-> Weekday(d),
         week |-> week,
         year |-> year,
         year_week |-> YearWeek(year, week)]

CalendarData(frame, t) == [d \in DateRange(t) |-> CalendarRow(frame, d)]

\* a cell of the pivot table: the rational num / den, den >= 1
Rational(num, den) == [num |-> num, den |-> den]

RECURSIVE SumOver(_, _)
SumOver(f, S) ==
    IF S = {} THEN 0
    ELSE LET x == CHOOSE y \in S : TRUE
         IN  f[x] + SumOver(f, S \ {x})

\* pivot_table(index='weekday', columns='year_week', values='counts',
\* fill_value=0): aggfunc is the default, the mean of the rows that share the
\* cell; a cell no row falls in is filled with 0.  group is the rows of the
\* cell's year_week.
PivotCell(calendar_data, group, wd) ==
    LET rows == {d \in group : calendar_data[d].weekday = wd}
    IN  IF rows = {} THEN Rational(0, 1)
        ELSE Rational(SumOver([d \in rows |-> calendar_data[d].counts], rows),
                      Cardinality(rows))

\* lines 110-115, on the rational count = q.num / q.den
categorize_counts(q) ==
    IF q.num = 0 THEN 0
    ELSE IF q.den <= q.num /\ q.num <= 2 * q.den THEN 1
    ELSE IF 3 * q.den <= q.num /\ q.num <= 5 * q.den THEN 2
    ELSE IF 6 * q.den <= q.num /\ q.num <= 8 * q.den THEN 3
    ELSE 4

Weekdays == 0..6

\* lines 107-116: heatmap_data (the pivot table, its columns sorted) and
\* categorized_data = heatmap_data.applymap(categorize_counts), held together:
\* grid[c][wd] is the cell of column c (1-based, left to right) and weekday wd,
\* its value in heatmap_data and its category in categorized_data.  The
\* figure drawn from them is not modelled.
PivotAndCategorize(calendar_data) ==
    LET columns == SortedSeq({calendar_data[d].year_week : d \in DOMAIN calendar_data})
    IN  [calendar_data |-> calendar_data,
         columns |-> columns,
         grid |-> [c \in 1..Len(columns) |->
                     LET group == {d \in DOMAIN calendar_data :
                                      calendar_data[d].year_week = columns[c]}
                     IN  [wd \in Weekdays |->
                            LET count == PivotCell(calendar_data, group, wd)
                            IN  [value |-> count,
                                 category |-> categorize_counts(count)]]]]

(***************************************************************************)
(* SpecHeat: create_calendar_heatmap applied to non-empty frames whose     *)
(* rows lie at the ends of the window and just outside it, for every today *)
(* of FirstToday .. FirstToday + TodaySpan.                                *)
(***************************************************************************)
HeatTodays == FirstToday..(FirstToday + TodaySpan)
\* days before today: the window's last days, the days a year back, the
\* window's first day and the day before it
HeatOffsets == {0, 1, 364, 371, 372}
\* rows as Add Task stores them: pd.to_datetime(task_date) is midnight
HeatRows(t) == {Row(t - k, "00:00:00", s) : k \in HeatOffsets, s \in {"pending"}}

InitHeat ==
    /\ today \in HeatTodays
    /\ df \in FramesUpTo(HeatRows(today), MaxHeatRecords) \ {<<>>}
    /\ pc = "ready"
    /\ stats = StatsTuple(0, 0, 0, 0, 0)
    /\ heatmap = <<>>
    /\ IdleSession

\* lines 102-106: daily_counts and calendar_data
BuildCalendarData ==
    /\ pc = "ready"
    /\ pc' = "pivot"
    /\ heatmap' = [calendar_data |-> CalendarData(df, today)]
    /\ UNCHANGED <<today, df, stats, csv, confirm_delete_index,
                   lastPressed, lastStep, nextId>>

\* lines 107-116
BuildHeatmap ==
    /\ pc = "pivot"
    /\ pc' = "done"
    /\ heatmap' = PivotAndCategorize(heatmap.calendar_data)
    /\ UNCHANGED <<today, df, stats, csv, confirm_delete_index,
                   lastPressed, lastStep, nextId>>

NextHeat == BuildCalendarData \/ BuildHeatmap

SpecHeat == InitHeat /\ [][NextHeat]_vars

(***************************************************************************)
(* The heatmap's claims.                                                   *)
(***************************************************************************)
\* the bucket table of the claim, on integer counts
BucketOf(k) ==
    IF k = 0 THEN 0
    ELSE IF k <= 2 THEN 1
    ELSE IF k <= 5 THEN 2
    ELSE IF k <= 8 THEN 3
    ELSE 4

SampleCounts == <<0, 1, 2, 3, 5, 6, 8, 9, 100>>
SampleBuckets == <<0, 1, 1, 2, 2, 3, 3, 4, 4>>

\* the records of calendar day d
RecordsOn(frame, d) == Cardinality({i \in 1..Len(frame) : frame[i].date.day = d})

\* the days placed in column c of the grid
ColumnDays(c) ==
    {d \in DOMAIN heatmap.calendar_data :
        heatmap.calendar_data[d].year_week = heatmap.columns[c]}

\* C5: categorize_counts maps every non-negative integer count by the table
\* 0 -> 0, 1..2 -> 1, 3..5 -> 2, 6..8 -> 3, 9.. -> 4, the sample counts map to the
\* sample buckets, and every value that reaches it from the grid is such an
\* integer count.
C5_CategorizeIntegerCounts ==
    /\ \A i \in 1..Len(SampleCounts) :
          categorize_counts(Rational(SampleCounts[i], 1)) = SampleBuckets[i]
    /\ pc = "done" =>
          \A c \in DOMAIN heatmap.grid : \A wd \in Weekdays :
              LET cell == heatmap.grid[c][wd]
              IN  /\ cell.value.num >= 0
                  /\ cell.value.num % cell.value.den = 0
                  /\ cell.category = BucketOf(cell.value.num \div cell.value.den)

\* C6: the grid carries exactly 53 * 7 + 1 = 372 day entries, one for each day
\* from today - 53 weeks to today: distinct days occupy distinct (weekday,
\* year_week) cells, each cell's value is the number of records on that one
\* day, and each category is in 0..4.
C6_GridCoverage ==
    pc = "done" =>
        LET cd == heatmap.calendar_data
        IN  /\ DOMAIN cd = (today - 53 * 7)..today
            /\ Cardinality({<<cd[d].weekday, cd[d].year_week>> : d \in DOMAIN cd})
                  = 53 * 7 + 1
            /\ \A c \in DOMAIN heatmap.grid :
                  \A d \in ColumnDays(c) :
                      LET cell == heatmap.grid[c][cd[d].weekday]
                      IN  /\ cell.value.num = RecordsOn(df, d) * cell.value.den
                          /\ cell.category \in 0..4

\* C7: the columns are in chronological order: every day placed in a column is
\* earlier than every day placed in a column to its right.
C7_ColumnsChronological ==
    pc = "done" =>
        LET extents == {[column |-> c,
                         first |-> SetMin(ColumnDays(c)),
                         last |-> SetMax(ColumnDays(c))] : c \in DOMAIN heatmap.grid}
        IN  \A a, b \in extents : a.column < b.column => a.last < b.first

====
